---- MODULE Spec2Model ----
(***************************************************************************)
(* Model of the document generation service (docgen-service-python/app).   *)
(*                                                                         *)
(*   models.py     request decoding and validation (pydantic models)       *)
(*   generator.py  create_research_document: request -> document -> file   *)
(*   main.py       the generate and download endpoints, the output dir     *)
(*                                                                         *)
(* Text is a sequence of one-character strings, so that replace, slicing,  *)
(* split and strip are computed character by character.                    *)
(*                                                                         *)
(* A Python Optional value is a sequence of length at most one:            *)
(* <<>> is None and <<v>> is the value v.  A field of a JSON body is an    *)
(* Optional wrapped once more: <<>> is "key absent", << <<>> >> is an      *)
(* explicit null and << <<v>> >> is the value v.                           *)
(***************************************************************************)
EXTENDS Integers, Sequences, FiniteSets, TLC

(***************************************************************************)
(* Bounds of the model.                                                    *)
(***************************************************************************)
MaxRequests   == 3     \* generate requests handled in one run of Spec
MaxTitleLen   == 32    \* longest research title that is enumerated
MaxContentLen == 3     \* longest enumerated chapter content
MaxRefs       == 3     \* longest enumerated reference list

(***************************************************************************)
(* Python values.                                                          *)
(***************************************************************************)
PyNone    == <<>>
Some(v)   == <<v>>
Absent    == <<>>
Null      == << <<>> >>
Val(v)    == << <<v>> >>

Range(s)  == {s[i] : i \in 1..Len(s)}

\* str.replace(old, new) for one-character old and new
Replace(s, old, new) == [i \in 1..Len(s) |-> IF s[i] = old THEN new ELSE s[i]]

\* s[:n]
Prefix(s, n) == IF Len(s) <= n THEN s ELSE SubSeq(s, 1, n)

\* the characters str.strip() removes
Whitespace == {" ", "\t", "\n", "\r"}

\* str.lstrip(): drop leading whitespace
RECURSIVE LStrip(_)
LStrip(s) == IF s # <<>> /\ Head(s) \in Whitespace THEN LStrip(Tail(s)) ELSE s

\* str.rstrip(): drop trailing whitespace
RECURSIVE RStrip(_)
RStrip(s) == IF s # <<>> /\ s[Len(s)] \in Whitespace
             THEN RStrip(SubSeq(s, 1, Len(s) - 1)) ELSE s

\* str.strip()
Strip(s) == RStrip(LStrip(s))

\* str.split(sep) for a one-character sep: scan left to right, cut at each sep
RECURSIVE SplitFrom(_, _, _)
SplitFrom(s, sep, acc) ==
    IF s = <<>> THEN <<acc>>
    ELSE IF Head(s) = sep THEN <<acc>> \o SplitFrom(Tail(s), sep, <<>>)
    ELSE SplitFrom(Tail(s), sep, Append(acc, Head(s)))

Split(s, sep) == SplitFrom(s, sep, <<>>)

(***************************************************************************)
(* Literals of the source, as text.                                        *)
(***************************************************************************)
S_project   == <<"p","r","o","j","e","c","t","_">>
S_docx      == <<".","d","o","c","x">>
S_by        == <<"B","y",":"," ">>
S_spec      == <<"S","p","e","c","i","a","l","i","z","a","t","i","o","n",":"," ">>
S_inst      == <<"I","n","s","t","i","t","u","t","i","o","n",":"," ">>
S_refs      == <<"R","e","f","e","r","e","n","c","e","s">>
S_missing   == <<"R","e","f","e","r","e","n","c","e"," ","d","a","t","a"," ",
                 "m","i","s","s","i","n","g"," ","f","o","r"," ","a"," ",
                 "s","o","u","r","c","e",".">>
S_none      == <<"N","o","n","e">>
S_student   == <<"A","."," ","S","t","u","d","e","n","t">>
S_univ      == <<"U","n","i","v","e","r","s","i","t","y"," ","o","f"," ",
                 "E","x","a","m","p","l","e">>
S_field     == <<"F","i","e","l","d"," ","o","f"," ","S","t","u","d","y">>

\* OUTPUT_DIR, main.py: the default "./generated_documents"
OUTPUT_DIR  == <<".","/","g","e","n","e","r","a","t","e","d","_",
                 "d","o","c","u","m","e","n","t","s">>

(***************************************************************************)
(* formatting_options: Dict[str, Any].  A dict is a function from the keys *)
(* that are enumerated to an Optional value: <<>> when the key is not in   *)
(* the dict.  A JSON scalar is a tagged record; a number is kept in tenths *)
(* (120 is 12, 15 is 1.5, 105 is 10.5).                                    *)
(***************************************************************************)
OptionKeys == {"font_family", "font_size_main", "line_spacing", "citation_style"}
EmptyDict  == [k \in OptionKeys |-> <<>>]
JNum(n10)  == [t |-> "number", n |-> n10, s |-> ""]
JStr(str)  == [t |-> "string", n |-> 0, s |-> str]

(***************************************************************************)
(* models.py: decoding of the request body.                                *)
(***************************************************************************)
HexLower == {"0","1","2","3","4","5","6","7","8","9","a","b","c","d","e","f"}
HexUpper == {"A","B","C","D","E","F"}

ToLower(c) == CASE c = "A" -> "a" [] c = "B" -> "b" [] c = "C" -> "c"
                [] c = "D" -> "d" [] c = "E" -> "e" [] c = "F" -> "f"
                [] OTHER -> c

\* uuid.UUID(hex): the hyphens are removed, 32 hex digits must remain
RECURSIVE DropHyphens(_)
DropHyphens(s) == IF s = <<>> THEN <<>>
                  ELSE IF Head(s) = "-" THEN DropHyphens(Tail(s))
                  ELSE <<Head(s)>> \o DropHyphens(Tail(s))

IsUUID(s) == LET h == DropHyphens(s)
             IN  Len(h) = 32 /\ Range(h) \subseteq (HexLower \cup HexUpper)

\* str(uuid.UUID): lower-case hex digits in groups of 8-4-4-4-12
UUIDStr(s) == LET h == DropHyphens(s)
                  g(a, b) == [i \in 1..(b - a + 1) |->
                                 IF a + i - 1 <= Len(h) THEN ToLower(h[a + i - 1]) ELSE "?"]
              IN  g(1, 8) \o <<"-">> \o g(9, 12) \o <<"-">> \o g(13, 16)
                  \o <<"-">> \o g(17, 20) \o <<"-">> \o g(21, 32)

\* a field declared `str` with no default: present and not null
RequiredStr(f) == f # Absent /\ f # Null

\* ValidChapter with an optional content
ValidChapter_ContentOptional(c) == /\ RequiredStr(c.type)
                                   /\ RequiredStr(c.title)

\* ChapterData: type, title and content are required strings
ValidChapter(c) == /\ RequiredStr(c.type)
                   /\ RequiredStr(c.title)
                   /\ RequiredStr(c.content)

\* ValidTitle with a minimum length of one
ValidTitle_MinLength1(f) == RequiredStr(f) /\ f[1][1] # <<>>

\* research_title: str
ValidTitle(f) == RequiredStr(f)

\* project_id: uuid.UUID
ValidProjectId(f) == RequiredStr(f) /\ IsUUID(f[1][1])

\* chapters: List[ChapterData]
ValidChapters(f) == /\ f # Absent /\ f # Null
                    /\ \A i \in 1..Len(f[1][1]) : ValidChapter(f[1][1][i])

\* DocumentGenerationRequest accepts the body
ValidRequest(raw) == /\ ValidProjectId(raw.project_id)
                     /\ ValidTitle(raw.research_title)
                     /\ ValidChapters(raw.chapters)

\* an Optional field with a default: absent -> default, null -> None
OptionalField(f, default) == IF f = Absent THEN default ELSE f[1]

\* the value of a required field (the empty value where validation failed)
Required(f) == IF RequiredStr(f) THEN f[1][1] ELSE <<>>

ParseChapter(c) == [type    |-> Required(c.type),
                    title   |-> Required(c.title),
                    content |-> Required(c.content)]

\* ReferenceData: citation_apa: Optional[str] = None
ParseReference(r) == [citation_apa |-> OptionalField(r.citation_apa, PyNone)]

\* references: Optional[List[ReferenceData]] = []
ParseReferences(f) ==
    IF f = Absent THEN Some(<<>>)
    ELSE IF f = Null THEN PyNone
    ELSE Some([i \in 1..Len(f[1][1]) |-> ParseReference(f[1][1][i])])

\* the DocumentGenerationRequest built from a valid body
ParseRequest(raw) ==
    [project_id         |-> UUIDStr(Required(raw.project_id)),
     research_title     |-> Required(raw.research_title),
     student_name       |-> OptionalField(raw.student_name, Some(S_student)),
     university_name    |-> OptionalField(raw.university_name, Some(S_univ)),
     specialization     |-> OptionalField(raw.specialization, Some(S_field)),
     chapters           |-> [i \in 1..Len(Required(raw.chapters)) |->
                                ParseChapter(Required(raw.chapters)[i])],
     references         |-> ParseReferences(raw.references),
     formatting_options |-> OptionalField(raw.formatting_options, Some(EmptyDict))]

\* dict.get(key, default)
DictGet(d, key, default) == IF d[key] = <<>> THEN default ELSE d[key][1]

\* docx.shared.Pt(points) in EMU: int(points * 12700), points given in tenths
Pt(n10) == n10 * 1270

\* docx.shared.Inches(inches) in EMU: int(inches * 914400), inches in tenths
Inches(n10) == n10 * 91440

(***************************************************************************)
(* generator.py: create_research_document.                                 *)
(***************************************************************************)
\* one block-level element appended to the document body
Element(kind, level, text, align, style, left, first) ==
    [kind |-> kind, level |-> level, text |-> text, align |-> align,
     style |-> style, left_indent |-> left, first_line_indent |-> first]

\* doc.add_heading(text, level)
Heading(text, level, align) ==
    Element("heading", level, text, align,
            IF level = 0 THEN "Title" ELSE "Heading 1", <<>>, <<>>)

\* doc.add_paragraph(text)
Paragraph(text, align) == Element("paragraph", 0, text, align, "Normal", <<>>, <<>>)

\* doc.add_paragraph(): the blank spacer
Spacer == Paragraph(<<>>, "none")

\* doc.add_page_break()
PageBreak == Element("page_break", 0, <<>>, "none", "Normal", <<>>, <<>>)

\* an f-string field: str(value), "None" for None
Fmt(opt) == IF opt = PyNone THEN S_none ELSE opt[1]

\* StyleSetup with a default size of 11 points
StyleSetup_Size11(opts) ==
    [font_name    |-> DictGet(opts, "font_family", JStr("Times New Roman")).s,
     font_size    |-> Pt(DictGet(opts, "font_size_main", JNum(110)).n),
     line_spacing |-> DictGet(opts, "line_spacing", JNum(15)).n]

\* lines 22-27: the Normal style
StyleSetup(opts) ==
    [font_name    |-> DictGet(opts, "font_family", JStr("Times New Roman")).s,
     font_size    |-> Pt(DictGet(opts, "font_size_main", JNum(120)).n),
     line_spacing |-> DictGet(opts, "line_spacing", JNum(15)).n]

\* lines 30-35: the title page
TitleBlock(data) ==
    << Heading(data.research_title, 0, "center"),
       Spacer,
       Paragraph(S_by \o Fmt(data.student_name), "center"),
       Paragraph(S_spec \o Fmt(data.specialization), "center"),
       Paragraph(S_inst \o Fmt(data.university_name), "center"),
       PageBreak >>

\* lines 74-77: one paragraph per segment that is non-empty after strip()
RECURSIVE SegmentParagraphs(_)
SegmentParagraphs(segs) ==
    IF segs = <<>> THEN <<>>
    ELSE (IF Strip(Head(segs)) # <<>>
          THEN <<Paragraph(Strip(Head(segs)), "none")>> ELSE <<>>)
         \o SegmentParagraphs(Tail(segs))

\* ChapterParagraphs without the `if para_text.strip()` test
ChapterParagraphs_KeepBlank(content) ==
    LET segs == Split(content, "\n")
    IN  [i \in 1..Len(segs) |-> Paragraph(Strip(segs[i]), "none")]

ChapterParagraphs(content) == SegmentParagraphs(Split(content, "\n"))

\* lines 71-78: one chapter
ChapterBlock(chapter) ==
    <<Heading(chapter.title, 1, "none")>>
    \o ChapterParagraphs(chapter.content)
    \o <<Spacer>>

\* lines 70-78: the chapters, in input order
RECURSIVE ChapterBlocks(_)
ChapterBlocks(chapters) ==
    IF chapters = <<>> THEN <<>>
    ELSE ChapterBlock(Head(chapters)) \o ChapterBlocks(Tail(chapters))

\* ChapterElems with one more spacer after the loop
ChapterElems_SpacerAfterLoop(chapters) == ChapterBlocks(chapters) \o <<Spacer>>

ChapterElems(chapters) == ChapterBlocks(chapters)

\* ReferenceParagraph testing `is not None` instead of truthiness
ReferenceParagraph_IsNotNone(ref) ==
    IF ref.citation_apa # PyNone
    THEN Element("paragraph", 0, ref.citation_apa[1], "none", "List Paragraph",
                 <<Inches(0)>>, <<Inches(-5)>>)
    ELSE Element("paragraph", 0, S_missing, "none", "List Paragraph", <<>>, <<>>)

\* lines 86-94: one reference; an empty citation is falsy like None
ReferenceParagraph(ref) ==
    IF ref.citation_apa # PyNone /\ ref.citation_apa[1] # <<>>
    THEN Element("paragraph", 0, ref.citation_apa[1], "none", "List Paragraph",
                 <<Inches(0)>>, <<Inches(-5)>>)
    ELSE Element("paragraph", 0, S_missing, "none", "List Paragraph", <<>>, <<>>)

\* lines 81-94: the references section; None and [] are both falsy
ReferenceElems(references) ==
    IF references = PyNone \/ references[1] = <<>> THEN <<>>
    ELSE <<Heading(S_refs, 1, "none")>>
         \o [i \in 1..Len(references[1]) |-> ReferenceParagraph(references[1][i])]

\* FileName cutting the title one character late
FileName_Cut31(data) ==
    S_project \o data.project_id \o <<"_">>
    \o Prefix(Replace(data.research_title, " ", "_"), 31) \o S_docx

\* line 97
FileName(data) ==
    S_project \o data.project_id \o <<"_">>
    \o Prefix(Replace(data.research_title, " ", "_"), 30) \o S_docx

\* line 98
FullOutputPath(output_path, file_name) == output_path \o <<"/">> \o file_name

\* an exception object
Exc(type, msg) == [exc |-> type, msg |-> msg, cause |-> <<>>]
NoExc          == Exc("", "")

NoStyle == [font_name |-> "", font_size |-> 0, line_spacing |-> 0]
NoDoc   == [style |-> NoStyle, body |-> <<>>]

\* lines 16-98: the document that is built, or the exception that leaves the
\* try block: None has no .get, and Pt() of a string does not convert
BuildDocument(data, output_path) ==
    IF data.formatting_options = PyNone
    THEN [raised |-> Exc("AttributeError", "'NoneType' object has no attribute 'get'"),
          doc |-> NoDoc, file_name |-> <<>>, full_output_path |-> <<>>]
    ELSE IF DictGet(data.formatting_options[1], "font_size_main", JNum(120)).t # "number"
    THEN [raised |-> Exc("ValueError", "invalid literal for int()"),
          doc |-> NoDoc, file_name |-> <<>>, full_output_path |-> <<>>]
    ELSE [raised    |-> NoExc,
          doc       |-> [style |-> StyleSetup(data.formatting_options[1]),
                         body  |-> TitleBlock(data)
                                   \o ChapterElems(data.chapters)
                                   \o ReferenceElems(data.references)],
          file_name |-> FileName(data),
          full_output_path |-> FullOutputPath(output_path, FileName(data))]

(***************************************************************************)
(* Request bodies that are enumerated.                                     *)
(***************************************************************************)
Digits(d)    == [i \in 1..32 |-> d]
Hyphenated(h) == SubSeq(h, 1, 8) \o <<"-">> \o SubSeq(h, 9, 12) \o <<"-">>
                 \o SubSeq(h, 13, 16) \o <<"-">> \o SubSeq(h, 17, 20)
                 \o <<"-">> \o SubSeq(h, 21, 32)
UUID1        == Hyphenated(Digits("1"))
UUIDa        == Hyphenated(Digits("a"))
UUIDA        == Hyphenated(Digits("A"))      \* the same id as UUIDa
NotAUUID     == <<"n","o","t","-","a","-","u","u","i","d">>

T_MyThesis   == <<"M","y"," ","T","h","e","s","i","s">>
T_My_Thesis  == <<"M","y","_","T","h","e","s","i","s">>
T_Slash      == <<"a","/","b">>

Letters      == <<"a","b","c","d","e">>

\* a title of n characters with a space at every k-th place
TitleOf(n, k) == [i \in 1..n |-> IF i % k = 0 THEN " " ELSE Letters[(i % 5) + 1]]

Titles       == {TitleOf(n, k) : n \in 0..MaxTitleLen, k \in {2, 7, MaxTitleLen + 1}}
                \cup {T_MyThesis, T_My_Thesis, T_Slash}

RECURSIVE SeqsUpTo(_, _)
SeqsUpTo(S, n) == IF n = 0 THEN {<<>>}
                  ELSE LET shorter == SeqsUpTo(S, n - 1)
                       IN  shorter \cup {Append(q, x) : q \in shorter, x \in S}

ContentChars == {"A", "B", " ", "\n", "\t"}
C_Example    == <<"A","\n","\n","B","\n"," "," "," ","\n","C">>
C_Two        == <<"A"," ","B","\n","\n"," ","B","\r">>
Contents     == SeqsUpTo(ContentChars, MaxContentLen) \cup {C_Example, C_Two}

H_Intro      == <<"I","n","t","r","o">>
H_Method     == <<"M","e","t","h","o","d">>

RawChapter(type, title, content) == [type |-> type, title |-> title, content |-> content]
Chapter(title, content) == RawChapter(Val(H_Intro), Val(title), Val(content))

R_Doe        == <<"D","o","e",","," ","J","."," ","(","2","0","2","0",")",".">>
R_Abe        == <<"A","b","e">>
RawRef(c)    == [citation_apa |-> c]
RefChoices   == {RawRef(Absent), RawRef(Null), RawRef(Val(<<>>)),
                 RawRef(Val(R_Doe)), RawRef(Val(R_Abe))}
RefLists     == SeqsUpTo(RefChoices, MaxRefs)

Dict(family, size, spacing, other) ==
    [k \in OptionKeys |-> CASE k = "font_family"    -> family
                            [] k = "font_size_main" -> size
                            [] k = "line_spacing"   -> spacing
                            [] OTHER                -> other]
Dicts        == {Dict(f, z, l, o) :
                   f \in {<<>>, <<JStr("Arial")>>},
                   z \in {<<>>, <<JNum(100)>>, <<JNum(145)>>, <<JStr("big")>>},
                   l \in {<<>>, <<JNum(10)>>, <<JNum(20)>>},
                   o \in {<<>>, <<JStr("APA")>>}}

\* the smallest valid body: only the required fields, no chapters
BaseRaw      == [project_id         |-> Val(UUID1),
                 research_title     |-> Val(T_MyThesis),
                 student_name       |-> Absent,
                 university_name    |-> Absent,
                 specialization     |-> Absent,
                 chapters           |-> Val(<<>>),
                 references         |-> Absent,
                 formatting_options |-> Absent]

With(raw, key, field) == [raw EXCEPT ![key] = field]

\* the bodies of Spec: few, with equal and different file names among them
Requests ==
    { BaseRaw,
      With(With(BaseRaw, "research_title", Val(T_My_Thesis)),
           "chapters", Val(<<Chapter(H_Intro, C_Two)>>)),
      With(BaseRaw, "project_id", Val(UUIDa)),
      With(With(BaseRaw, "project_id", Val(UUIDA)),
           "references", Val(<<RawRef(Val(R_Doe)), RawRef(Absent)>>)),
      With(BaseRaw, "research_title", Val(T_Slash)),
      With(BaseRaw, "research_title", Val(<<>>)),
      With(BaseRaw, "research_title", Absent),
      With(BaseRaw, "project_id", Val(NotAUUID)),
      With(BaseRaw, "chapters", Absent),
      With(BaseRaw, "chapters", Val(<<RawChapter(Absent, Val(H_Intro), Val(C_Two))>>)),
      With(BaseRaw, "chapters", Val(<<RawChapter(Val(H_Intro), Absent, Val(C_Two))>>)),
      With(BaseRaw, "chapters",
           Val(<<Chapter(H_Intro, C_Two),
                 RawChapter(Val(H_Intro), Val(H_Method), Absent)>>)),
      With(BaseRaw, "formatting_options", Null),
      With(BaseRaw, "formatting_options",
           Val(Dict(<<>>, <<JStr("big")>>, <<>>, <<>>))) }

\* the bodies of SpecInputs: each field varied over its family
AllRequests ==
    Requests
    \cup {With(BaseRaw, "research_title", Val(t)) : t \in Titles}
    \cup {With(BaseRaw, "research_title", f) : f \in {Absent, Null, Val(<<>>)}}
    \cup {With(BaseRaw, "project_id", f) : f \in {Absent, Null, Val(UUIDA)}}
    \cup {With(BaseRaw, "chapters", Val(<<Chapter(H_Intro, c)>>)) : c \in Contents}
    \cup {With(BaseRaw, "chapters", Val(<<Chapter(H_Intro, c), Chapter(H_Method, d)>>)) :
             c \in {C_Example, <<>>}, d \in {C_Two, <<"B">>}}
    \cup {With(BaseRaw, "chapters", f) : f \in
             {Absent, Null,
              Val(<<RawChapter(Absent, Val(H_Intro), Val(C_Two))>>),
              Val(<<RawChapter(Val(H_Intro), Absent, Val(C_Two))>>),
              Val(<<Chapter(H_Intro, C_Two),
                    RawChapter(Val(H_Intro), Val(H_Method), Absent)>>),
              Val(<<RawChapter(Val(H_Intro), Val(H_Method), Null)>>)}}
    \cup {With(BaseRaw, "references", Val(r)) : r \in RefLists}
    \cup {With(BaseRaw, "references", Null)}
    \cup {With(With(BaseRaw, "chapters", Val(<<Chapter(H_Intro, C_Example)>>)),
               "references", Val(r)) : r \in SeqsUpTo(RefChoices, 1)}
    \cup {With(BaseRaw, "formatting_options", Val(d)) : d \in Dicts}
    \cup {With(BaseRaw, "student_name", f) : f \in {Null, Val(R_Abe)}}

(***************************************************************************)
(* The output directory: a map from the path of a file to its content.     *)
(* The content is the document that was serialised and whether the write   *)
(* ran to its end (a write that fails midway leaves a truncated file).     *)
(***************************************************************************)
Complete(doc)  == [complete |-> TRUE,  doc |-> doc]
Truncated(doc) == [complete |-> FALSE, doc |-> doc]

\* WriteFile that keeps a file that is already there
WriteFile_KeepExisting(fs, path, content) ==
    IF path \in DOMAIN fs THEN fs ELSE (path :> content) @@ fs

\* doc.save(path): open(path, "wb") creates or truncates, then writes
WriteFile(fs, path, content) == (path :> content) @@ fs

\* os.path.join(a, b)
Join(a, b) == IF b # <<>> /\ Head(b) = "/" THEN b
              ELSE IF a # <<>> /\ a[Len(a)] # "/" THEN a \o <<"/">> \o b
              ELSE a \o b

\* the directory of the path exists: the output directory has no
\* subdirectory, so a file name must not contain a separator
Openable(file_name) == "/" \notin Range(file_name)

\* the file names a client may ask for
N_Other == <<"o","t","h","e","r",".","d","o","c","x">>
DownloadNames ==
    {FileName(ParseRequest(raw)) : raw \in {r \in Requests : ValidRequest(r)}}
    \cup {N_Other}

(***************************************************************************)
(* Responses.                                                              *)
(***************************************************************************)
Response(op, st, project_id, file_name, detail, body) ==
    [op |-> op, status |-> st, project_id |-> project_id,
     file_name |-> file_name, detail |-> detail, body |-> body]

NoResponse == Response("none", 0, <<>>, <<>>, <<>>, <<>>)

\* main.py 49-53: the success descriptor
Accepted(data, file_name) ==
    Response("generate", 202, Some(data.project_id), Some(file_name),
             <<"Document generation initiated and completed. Go backend should update DB.">>,
             <<>>)

\* main.py 54-57: HTTPException(500, f"Document generation failed: {str(e)}")
Failed(e) ==
    Response("generate", 500, <<>>, <<>>,
             <<"Document generation failed: ", e.msg>>, <<>>)

\* the framework's answer to a body the request model rejects
Unprocessable == Response("generate", 422, <<>>, <<>>, <<"validation error">>, <<>>)

\* main.py 64-67
NotFound(name) == Response("download", 404, <<>>, Some(name), <<"File not found.">>, <<>>)

\* main.py 70
FileResponse(fs, path, name) ==
    Response("download", 200, <<>>, Some(name), <<>>, Some(fs[path]))

\* Reraise wrapping the exception in a new one
Reraise_Wrapped(e) == [exc |-> "GenerationError", msg |-> e.msg, cause |-> <<e>>]

\* generator.py 103-105: the exception that leaves create_research_document
Reraise(e) == e

(***************************************************************************)
(* State.                                                                  *)
(***************************************************************************)
VARIABLES
    files,       \* the file system: path -> content
    pc,          \* where the generate handler is:
                 \*   idle, build, save, return, except, failed
    cur,         \* Optional: the request the handler works on
    built,       \* Optional: what BuildDocument produced for cur
    cause,       \* the exception raised inside the try block of the last
                 \* create_research_document call (NoExc: none)
    exc,         \* the exception that left create_research_document
    response,    \* the last response sent
    nreq,        \* generate requests received so far
    lastRaw,     \* Optional: the body of the last generate request
    calls,       \* invocations of create_research_document so far
    saves,       \* doc.save calls made for cur
    lastWrite,   \* path -> the request and outcome of the last write to it
    generated    \* (file name, content) of every successful generate

vars == <<files, pc, cur, built, cause, exc, response, nreq, lastRaw, calls, saves,
          lastWrite, generated>>

Init ==
    /\ files = <<>>
    /\ pc = "idle"
    /\ cur = <<>>
    /\ built = <<>>
    /\ cause = NoExc
    /\ exc = NoExc
    /\ response = NoResponse
    /\ nreq = 0
    /\ lastRaw = <<>>
    /\ calls = 0
    /\ saves = 0
    /\ lastWrite = <<>>
    /\ generated = {}

(***************************************************************************)
(* POST /generate-document.  The handler is a coroutine that never awaits: *)
(* the event loop runs it from the decoded body to the response before it  *)
(* takes up another request, so no other handler runs between its steps.   *)
(***************************************************************************)
\* the body is decoded; a valid one enters the handler, which calls
\* create_research_document (main.py 27-41)
Receive(raw, max) ==
    /\ pc = "idle"
    /\ nreq < max
    /\ nreq' = nreq + 1
    /\ lastRaw' = Some(raw)
    /\ IF ValidRequest(raw)
       THEN /\ cur' = Some(ParseRequest(raw))
            /\ pc' = "build"
            /\ calls' = calls + 1
            /\ saves' = 0
            /\ UNCHANGED response
       ELSE /\ response' = Unprocessable
            /\ UNCHANGED <<cur, pc, calls, saves>>
    /\ cause' = NoExc
    /\ exc' = NoExc
    /\ UNCHANGED <<files, built, lastWrite, generated>>

\* generator.py 16-98
Build ==
    /\ pc = "build"
    /\ LET b == BuildDocument(cur[1], OUTPUT_DIR)
       IN  IF b.raised = NoExc
           THEN /\ built' = Some(b)
                /\ pc' = "save"
                /\ UNCHANGED cause
           ELSE /\ cause' = b.raised
                /\ pc' = "except"
                /\ UNCHANGED built
    /\ UNCHANGED <<files, cur, exc, response, nreq, lastRaw, calls, saves,
                   lastWrite, generated>>

\* generator.py 99: doc.save succeeds
SaveOk ==
    /\ pc = "save"
    /\ Openable(built[1].file_name)
    /\ LET path == built[1].full_output_path
       IN  /\ files' = WriteFile(files, path, Complete(built[1].doc))
           /\ lastWrite' = (path :> [data |-> cur[1], ok |-> TRUE]) @@ lastWrite
    /\ saves' = saves + 1
    /\ pc' = "return"
    /\ UNCHANGED <<cur, built, cause, exc, response, nreq, lastRaw, calls, generated>>

\* generator.py 99: doc.save cannot open the file
SaveFailOpen ==
    /\ pc = "save"
    /\ saves' = saves + 1
    /\ cause' = Exc("OSError", "cannot open the file")
    /\ pc' = "except"
    /\ UNCHANGED <<files, cur, built, exc, response, nreq, lastRaw, calls,
                   lastWrite, generated>>

\* generator.py 99: doc.save fails after it opened the file
SaveFailWrite ==
    /\ pc = "save"
    /\ Openable(built[1].file_name)
    /\ LET path == built[1].full_output_path
       IN  /\ files' = WriteFile(files, path, Truncated(built[1].doc))
           /\ lastWrite' = (path :> [data |-> cur[1], ok |-> FALSE]) @@ lastWrite
    /\ saves' = saves + 1
    /\ cause' = Exc("OSError", "No space left on device")
    /\ pc' = "except"
    /\ UNCHANGED <<cur, built, exc, response, nreq, lastRaw, calls, generated>>

\* generator.py 101 and main.py 41-53
Return ==
    /\ pc = "return"
    /\ response' = Accepted(cur[1], built[1].file_name)
    /\ generated' = generated \cup
                      {[name |-> built[1].file_name, content |-> Complete(built[1].doc)]}
    /\ pc' = "idle"
    /\ cur' = <<>>
    /\ built' = <<>>
    /\ UNCHANGED <<files, cause, exc, nreq, lastRaw, calls, saves, lastWrite>>

\* generator.py 103-105: the error is logged and leaves the function
Except ==
    /\ pc = "except"
    /\ exc' = Reraise(cause)
    /\ pc' = "failed"
    /\ UNCHANGED <<files, cur, built, cause, response, nreq, lastRaw, calls,
                   saves, lastWrite, generated>>

\* main.py 54-57: the endpoint turns the exception into the response
Fail ==
    /\ pc = "failed"
    /\ response' = Failed(exc)
    /\ pc' = "idle"
    /\ cur' = <<>>
    /\ built' = <<>>
    /\ UNCHANGED <<files, cause, exc, nreq, lastRaw, calls, saves, lastWrite,
                   generated>>

(***************************************************************************)
(* GET /download/{file_name}                                               *)
(***************************************************************************)
\* DownloadResponse testing the bare name, not the path in the directory
DownloadResponse_BareName(fs, name) ==
    LET file_path == Join(OUTPUT_DIR, name)
    IN  IF name \notin DOMAIN fs THEN NotFound(name)
        ELSE FileResponse(fs, file_path, name)

DownloadResponse(fs, name) ==
    LET file_path == Join(OUTPUT_DIR, name)
    IN  IF file_path \notin DOMAIN fs THEN NotFound(name)
        ELSE FileResponse(fs, file_path, name)

\* what the download leaves on disk: nothing is written
DownloadFiles(fs, name) == fs

Download(name) ==
    /\ pc = "idle"
    /\ response' = DownloadResponse(files, name)
    /\ files' = DownloadFiles(files, name)
    /\ UNCHANGED <<pc, cur, built, cause, exc, nreq, lastRaw, calls, saves,
                   lastWrite, generated>>

Next ==
    \/ \E raw \in Requests : Receive(raw, MaxRequests)
    \/ Build
    \/ SaveOk
    \/ SaveFailOpen
    \/ SaveFailWrite
    \/ Return
    \/ Except
    \/ Fail
    \/ \E name \in DownloadNames : Download(name)

Spec == Init /\ [][Next]_vars

\* one request over all enumerated bodies
NextInputs ==
    \/ \E raw \in AllRequests : Receive(raw, 1)
    \/ Build
    \/ SaveOk
    \/ SaveFailOpen
    \/ SaveFailWrite
    \/ Return
    \/ Except
    \/ Fail
    \/ \E name \in DownloadNames : Download(name)

SpecInputs == Init /\ [][NextInputs]_vars

TypeOK == pc \in {"idle", "build", "save", "return", "except", "failed"}

(***************************************************************************)
(* Properties.  What a property expects is written out from the statement  *)
(* it checks, by positions in the text, not with the operators above.      *)
(***************************************************************************)
Min(S) == CHOOSE x \in S : \A y \in S : x <= y
Max(S) == CHOOSE x \in S : \A y \in S : x >= y

\* the places of the newlines of a text, and its newline-separated segments
NewlinesOf(c)   == {i \in 1..Len(c) : c[i] = "\n"}
CutOf(c, k)     == IF k = 0 THEN 0
                   ELSE IF k > Cardinality(NewlinesOf(c)) THEN Len(c) + 1
                   ELSE CHOOSE i \in NewlinesOf(c) :
                          Cardinality({j \in NewlinesOf(c) : j < i}) = k - 1
SegmentOf(c, k) == SubSeq(c, CutOf(c, k - 1) + 1, CutOf(c, k) - 1)
SegmentsOf(c)   == [k \in 1..(Cardinality(NewlinesOf(c)) + 1) |-> SegmentOf(c, k)]

\* a text without its surrounding whitespace
InkOf(t)     == {i \in 1..Len(t) : t[i] \notin Whitespace}
TrimmedOf(t) == IF InkOf(t) = {} THEN <<>> ELSE SubSeq(t, Min(InkOf(t)), Max(InkOf(t)))
NonEmpty(t)  == t # <<>>

\* what is looked at in an element: its kind, heading level and text
Shape(kind, level, text) == [kind |-> kind, level |-> level, text |-> text]
ShapeOf(e)   == Shape(e.kind, e.level, e.text)
ShapesOf(es) == [i \in 1..Len(es) |-> ShapeOf(es[i])]

\* the elements a chapter is to produce
ExpectedChapter(ch) ==
    LET kept == SelectSeq([k \in 1..Len(SegmentsOf(ch.content)) |->
                              TrimmedOf(SegmentsOf(ch.content)[k])], NonEmpty)
    IN  <<Shape("heading", 1, ch.title)>>
        \o [i \in 1..Len(kept) |-> Shape("paragraph", 0, kept[i])]
        \o <<Shape("paragraph", 0, <<>>)>>

RECURSIVE ExpectedChapters(_)
ExpectedChapters(chs) ==
    IF chs = <<>> THEN <<>>
    ELSE ExpectedChapter(Head(chs)) \o ExpectedChapters(Tail(chs))

\* the title block has six elements
TitleBlockLen == 6

\* the request in hand has been built into a document
Built == built # <<>> /\ cur # <<>>

\* the part of the built body after the title block
AfterTitle == SubSeq(built[1].doc.body, TitleBlockLen + 1, Len(built[1].doc.body))

\* C1: for every chapter, in input order, the document holds a level-1
\* heading with the chapter title, then one paragraph per newline-separated
\* segment that is non-empty after trimming (in order, with the trimmed
\* text), then one blank spacer paragraph; blank segments give no paragraph.
C1_ChaptersEmitted ==
    Built =>
      LET want == ExpectedChapters(cur[1].chapters)
      IN  /\ Len(AfterTitle) >= Len(want)
          /\ ShapesOf(SubSeq(AfterTitle, 1, Len(want))) = want

C1_Witness ==
    /\ Built /\ pc = "return"
    /\ Len(cur[1].chapters) = 2
    /\ cur[1].chapters[1].content = C_Example
    /\ ShapesOf(SubSeq(AfterTitle, 1, 5)) =
         << Shape("heading", 1, H_Intro), Shape("paragraph", 0, <<"A">>),
            Shape("paragraph", 0, <<"B">>), Shape("paragraph", 0, <<"C">>),
            Shape("paragraph", 0, <<>>) >>

NoReferences(data) == data.references = PyNone \/ data.references[1] = <<>>

\* the title block a request is to produce
ExpectedTitleBlock(data) ==
    << Shape("heading", 0, data.research_title),
       Shape("paragraph", 0, <<>>),
       Shape("paragraph", 0, S_by \o Fmt(data.student_name)),
       Shape("paragraph", 0, S_spec \o Fmt(data.specialization)),
       Shape("paragraph", 0, S_inst \o Fmt(data.university_name)),
       Shape("page_break", 0, <<>>) >>

\* C2 as stated: with no chapters the document is the title block alone.
C2_Original ==
    (Built /\ cur[1].chapters = <<>>) =>
      ShapesOf(built[1].doc.body) = ExpectedTitleBlock(cur[1])

\* C2, amended: with no chapters and no references the document is the
\* title block alone (title heading, spacer, the By, Specialization and
\* Institution lines, page break), all but the spacer and break centered.
C2_TitleOnly ==
    (Built /\ cur[1].chapters = <<>> /\ NoReferences(cur[1])) =>
      /\ ShapesOf(built[1].doc.body) = ExpectedTitleBlock(cur[1])
      /\ \A i \in {1, 3, 4, 5} : built[1].doc.body[i].align = "center"

C2_Witness ==
    /\ Built /\ pc = "return"
    /\ cur[1].chapters = <<>> /\ cur[1].references = Some(<<>>)
    /\ cur[1].research_title = T_MyThesis
    /\ Len(built[1].doc.body) = TitleBlockLen

\* the part of the built body after the title block and the chapters
AfterChapters ==
    SubSeq(AfterTitle, Len(ExpectedChapters(cur[1].chapters)) + 1, Len(AfterTitle))

\* C3 as stated: a References heading iff there are references, then one
\* paragraph per reference in input order; a reference that carries a
\* citation string gives exactly that text, and the placeholder is emitted
\* only for a reference whose citation is absent.
C3_Original ==
    Built =>
      IF NoReferences(cur[1]) THEN AfterChapters = <<>>
      ELSE LET refs == cur[1].references[1]
           IN  /\ Len(AfterChapters) = 1 + Len(refs)
               /\ ShapeOf(AfterChapters[1]) = Shape("heading", 1, S_refs)
               /\ \A i \in 1..Len(refs) :
                    /\ AfterChapters[i + 1].kind = "paragraph"
                    /\ refs[i].citation_apa # PyNone =>
                         AfterChapters[i + 1].text = refs[i].citation_apa[1]
                    /\ refs[i].citation_apa = PyNone =>
                         AfterChapters[i + 1].text = S_missing

\* C3, amended: a References heading iff there are references, then one
\* paragraph per reference in input order; a reference with a non-empty
\* citation gives exactly that text, and the placeholder is emitted for a
\* reference whose citation is absent or is the empty string.
C3_References ==
    Built =>
      IF NoReferences(cur[1]) THEN AfterChapters = <<>>
      ELSE LET refs == cur[1].references[1]
           IN  /\ Len(AfterChapters) = 1 + Len(refs)
               /\ ShapeOf(AfterChapters[1]) = Shape("heading", 1, S_refs)
               /\ \A i \in 1..Len(refs) :
                    /\ AfterChapters[i + 1].kind = "paragraph"
                    /\ AfterChapters[i + 1].text =
                         IF refs[i].citation_apa \in {PyNone, Some(<<>>)}
                         THEN S_missing ELSE refs[i].citation_apa[1]

C3_Witness ==
    /\ Built /\ pc = "return"
    /\ cur[1].references =
         Some(<< [citation_apa |-> Some(R_Doe)], [citation_apa |-> Some(<<>>)],
                 [citation_apa |-> Some(R_Abe)] >>)
    /\ AfterChapters[3].text = S_missing

\* the title part of a file name: spaces become underscores, at most 30
\* characters are kept
NameCut == 30
IsTitlePart(t, title) ==
    /\ Len(t) = IF Len(title) <= NameCut THEN Len(title) ELSE NameCut
    /\ \A i \in 1..Len(t) : t[i] = IF title[i] = " " THEN "_" ELSE title[i]

TitlePartOf(title) ==
    [i \in 1..(IF Len(title) <= NameCut THEN Len(title) ELSE NameCut) |->
        IF title[i] = " " THEN "_" ELSE title[i]]

\* C4: the file name is "project_" + project id + "_" + T + ".docx" with T the
\* title, spaces replaced by underscores, cut to its first 30 characters; the
\* full path is the output directory joined with that name.
C4_FileName ==
    Built =>
      LET name == built[1].file_name
          id   == cur[1].project_id
          from == Len(S_project) + Len(id) + 2
          to   == Len(name) - Len(S_docx)
      IN  /\ SubSeq(name, 1, Len(S_project)) = S_project
          /\ SubSeq(name, Len(S_project) + 1, Len(S_project) + Len(id)) = id
          /\ name[from - 1] = "_"
          /\ IsTitlePart(SubSeq(name, from, to), cur[1].research_title)
          /\ SubSeq(name, to + 1, Len(name)) = S_docx
          /\ built[1].full_output_path = Join(OUTPUT_DIR, name)
          /\ pc = "return" =>
               LET p == Join(OUTPUT_DIR, name)
               IN  p \in DOMAIN files /\ lastWrite[p].data = cur[1]

C4_Witness ==
    /\ Built /\ pc = "return"
    /\ Len(cur[1].research_title) > NameCut
    /\ " " \in Range(cur[1].research_title)
    /\ Len(built[1].file_name) = Len(S_project) + 36 + 1 + NameCut + Len(S_docx)

\* the formatting options of the last request body, {} when there are none
OptionsOf(raw) == IF raw.formatting_options \in {Absent, Null} THEN EmptyDict
                  ELSE raw.formatting_options[1][1]

\* C8: no formatting_options and {} both give Times New Roman, 12 points and
\* line spacing 1.5; each of font_family, font_size_main and line_spacing
\* overrides only its own setting, and any other key changes nothing.
C8_Formatting ==
    (Built /\ lastRaw # <<>>) =>
      LET o     == OptionsOf(lastRaw[1])
          style == built[1].doc.style
          plain == [o EXCEPT !["citation_style"] = <<>>]
      IN  /\ style.font_name =
               IF o["font_family"] = <<>> THEN "Times New Roman"
               ELSE o["font_family"][1].s
          /\ style.font_size * 10 =
               IF o["font_size_main"] = <<>> THEN 12 * 10 * 12700
               ELSE o["font_size_main"][1].n * 12700
          /\ style.line_spacing =
               IF o["line_spacing"] = <<>> THEN 15 ELSE o["line_spacing"][1].n
          /\ built[1].doc.body =
               BuildDocument(ParseRequest(With(lastRaw[1], "formatting_options", Absent)),
                             OUTPUT_DIR).doc.body
          /\ built[1].doc =
               BuildDocument(ParseRequest(With(lastRaw[1], "formatting_options", Val(plain))),
                             OUTPUT_DIR).doc

C8_Witness ==
    /\ Built /\ pc = "return"
    /\ lastRaw = Some(With(BaseRaw, "formatting_options",
                           Val(Dict(<<>>, <<>>, <<JNum(20)>>, <<JStr("APA")>>))))
    /\ built[1].doc.style =
         [font_name |-> "Times New Roman", font_size |-> 152400, line_spacing |-> 20]

\* a step that receives a generate request
Received == nreq' = nreq + 1

\* C5 as stated: on a failure the function fails with a GenerationError that
\* wraps the underlying cause.
C5_Original ==
    pc = "failed" => (exc.exc = "GenerationError" /\ exc.cause = <<cause>>)

\* C5, amended: on a failure while building or writing, the function returns
\* no result and the underlying exception itself leaves it, unwrapped; there
\* is no recovery or retry (at most one save, none after a build failure),
\* and the endpoint answers 500 with the detail "Document generation
\* failed: " and the exception's text, never with a success descriptor.
C5_FailureAborts ==
    /\ pc \in {"except", "failed"} =>
         /\ cause # NoExc
         /\ saves = (IF cause.exc = "OSError" THEN 1 ELSE 0)
         /\ calls <= nreq
    /\ pc = "failed" => exc = cause
    /\ (pc = "idle" /\ cause # NoExc /\ response.op = "generate") =>
         /\ response.status = 500
         /\ response.detail = <<"Document generation failed: ", cause.msg>>
         /\ response.file_name = <<>> /\ response.project_id = <<>>
    /\ (pc = "idle" /\ response.op = "generate" /\ response.status = 202) =>
         cause = NoExc

C5_Witness ==
    /\ pc = "idle" /\ response.op = "generate" /\ response.status = 500
    /\ cause = Exc("OSError", "No space left on device")
    /\ response.detail = <<"Document generation failed: ", "No space left on device">>

\* the request model turns a body down: no handler, no file, the answer 422
Rejected ==
    /\ calls' = calls /\ files' = files /\ pc' = "idle" /\ cur' = <<>>
    /\ response' = Unprocessable

\* the body is taken and create_research_document is called with it
Assembled == calls' = calls + 1 /\ pc' = "build" /\ cur' # <<>>

\* C6 as stated: a missing or empty research_title is rejected and nothing
\* is assembled.
C6_Original ==
    [][(Received /\ lastRaw'[1].research_title \in {Absent, Null, Val(<<>>)})
         => Rejected]_vars

\* C6, amended: research_title is a required string; a request without it
\* (absent or null) is rejected and nothing is assembled, while the empty
\* string is a valid title and the request is assembled.
C6_TitleRequired ==
    [][Received =>
         /\ lastRaw'[1].research_title \in {Absent, Null} => Rejected
         /\ lastRaw'[1] = With(BaseRaw, "research_title", Val(<<>>)) => Assembled]_vars

C6_Witness ==
    /\ lastRaw = Some(With(BaseRaw, "research_title", Val(<<>>)))
    /\ pc = "return"
    /\ built[1].file_name = S_project \o UUID1 \o <<"_">> \o S_docx

\* the ids of the enumerated bodies that are UUIDs
GoodIds == {UUID1, UUIDa, UUIDA}

\* a chapter that lacks one of type, title, content
Lacking(c) == Absent \in {c.type, c.title, c.content}

\* a body with a malformed project id, no chapters field, or a lacking chapter
Malformed(raw) ==
    \/ raw.project_id \notin {Absent, Null} /\ raw.project_id[1][1] \notin GoodIds
    \/ raw.chapters = Absent
    \/ /\ raw.chapters \notin {Absent, Null}
       /\ \E i \in 1..Len(raw.chapters[1][1]) : Lacking(raw.chapters[1][1][i])

\* C7: a body with a malformed project id, without chapters, or with a
\* chapter lacking type, title or content never reaches the assembler and
\* leaves the files as they are; a body with an empty chapters sequence and
\* no references or formatting_options is valid and is assembled.
C7_ValidationFirst ==
    [][Received =>
         /\ Malformed(lastRaw'[1]) => Rejected
         /\ lastRaw'[1] = BaseRaw => Assembled]_vars

C7_Witness ==
    /\ lastRaw # <<>>
    /\ lastRaw[1].chapters \notin {Absent, Null}
    /\ Len(lastRaw[1].chapters[1][1]) = 2
    /\ Lacking(lastRaw[1].chapters[1][1][2])
    /\ response = Unprocessable /\ pc = "idle"
    /\ calls = 1 /\ nreq = 2 /\ Cardinality(DOMAIN files) = 1

\* a step that answers a download
Downloaded == response' # response /\ response'.op = "download"

\* the document a request is to produce
DocumentOf(data) == BuildDocument(data, OUTPUT_DIR).doc

\* C9 as stated: a download is not found exactly when no file of that name
\* exists, in particular for a name no successful generate has written; it
\* changes no file; and a download of a name a successful generate returned
\* gives the content that generate wrote.
C9_Original ==
    [][Downloaded =>
         LET name == response'.file_name[1]
         IN  /\ response'.status = 404 <=> Join(OUTPUT_DIR, name) \notin DOMAIN files
             /\ files' = files
             /\ (\A g \in generated : g.name # name) => response'.status = 404
             /\ \A g \in generated : g.name = name =>
                  response'.status = 200 /\ response'.body = <<g.content>>]_vars

\* C9, amended: a download is not found exactly when no file of that name
\* exists in the output directory at that moment; it changes no file; and a
\* successful download gives what the last write to that name left: the
\* complete document of the request saved last under it, or a truncated file
\* when that last write failed midway.
C9_Download ==
    [][Downloaded =>
         LET name == response'.file_name[1]
             path == OUTPUT_DIR \o <<"/">> \o name
         IN  /\ response'.status \in {200, 404}
             /\ response'.status = 404 <=> path \notin DOMAIN files
             /\ files' = files
             /\ response'.status = 200 =>
                  /\ path \in DOMAIN lastWrite
                  /\ response'.body =
                       << [complete |-> lastWrite[path].ok,
                           doc      |-> DocumentOf(lastWrite[path].data)] >>]_vars

C9_Witness ==
    /\ response.op = "download" /\ response.status = 200
    /\ \E g \in generated : g.name = response.file_name[1] /\ response.body = <<g.content>>
    /\ Cardinality(DOMAIN files) = 2

====
